---- MODULE Spec2Model ----
(***************************************************************************)
(* Model of src/fly_server.py: the TickTick MCP tool surface.              *)
(*                                                                         *)
(* Python values are tagged records: None, a missing dict key (Absent),    *)
(* strings (sequences of characters), integers, booleans, lists, dicts.    *)
(* A tool handler has no await inside its body, so the event loop runs it  *)
(* from its first line to its return without interleaving: one action per  *)
(* handler.  The stages a handler passes through are recorded in the       *)
(* trace of the call.                                                      *)
(***************************************************************************)
EXTENDS Integers, Sequences, FiniteSets, TLC

VARIABLES ticktick, identity, env_ticktick_auth_token, env_auth_token, call, pending

vars == <<ticktick, identity, env_ticktick_auth_token, env_auth_token, call, pending>>

----------------------------------------------------------------------------
(* Python values *)

None == [t |-> "None"]

Absent == [t |-> "absent"]

PyStr(s) == [t |-> "str", v |-> s]

PyInt(n) == [t |-> "int", v |-> n]

PyBool(b) == [t |-> "bool", v |-> b]

PyList(s) == [t |-> "list", v |-> s]

EmptyStr == PyStr(<<>>)

\* bool(x) of Python: None, "", 0, False and [] are falsy, the rest truthy
Truthy(x) ==
    CASE x.t = "None" -> FALSE
      [] x.t = "absent" -> FALSE
      [] x.t = "str" -> x.v # <<>>
      [] x.t = "list" -> x.v # <<>>
      [] x.t = "int" -> x.v # 0
      [] x.t = "bool" -> x.v
      [] OTHER -> TRUE

\* dict.get(key, default): the default only when the key is missing
Get(d, key, default) == IF d[key] = Absent THEN default ELSE d[key]

----------------------------------------------------------------------------
(* Credential resolution and the process-wide session *)

\* what get_identity() yields: it raises (import error, no context), returns
\* None, or returns an object whose access_token attribute may be missing
IdentityRaises == [t |-> "raises"]

IdentityObj(tok) == [t |-> "obj", access_token |-> tok]

\* os.getenv(a) or os.getenv(b)
PyOr(a, b) == IF Truthy(a) THEN a ELSE b

\* get_auth_token without its try/except: a failing get_identity() propagates
get_auth_token_uncaught(id, e1, e2) ==
    IF id.t = "raises" THEN [exc |-> "ImportError", val |-> None]
    ELSE IF id.t = "obj" /\ id.access_token # Absent
    THEN [exc |-> "none", val |-> id.access_token]
    ELSE [exc |-> "none", val |-> PyOr(e1, e2)]

\* try: identity = get_identity(); if identity and hasattr(...): return its token
\* except Exception: pass -- then the environment.  exc is the exception that
\* leaves the function, "none" when it returns val
get_auth_token(id, e1, e2) ==
    IF id.t = "raises" THEN [exc |-> "none", val |-> PyOr(e1, e2)]
    ELSE IF id.t = "obj" /\ id.access_token # Absent
    THEN [exc |-> "none", val |-> id.access_token]
    ELSE [exc |-> "none", val |-> PyOr(e1, e2)]

TickTickClient(auth_token) == [t |-> "client", token |-> auth_token]

\* initialize_client without `if not auth_token: return False`
initialize_client_unchecked(id, e1, e2, cons) ==
    LET r == get_auth_token(id, e1, e2) IN
    IF cons = "raise"
    THEN [exc |-> "none", ret |-> FALSE, assigned |-> FALSE, client |-> None,
          auth_token |-> r.val, trace |-> <<"resolve", "construct">>]
    ELSE [exc |-> "none", ret |-> TRUE, assigned |-> TRUE,
          client |-> TickTickClient(r.val),
          auth_token |-> r.val, trace |-> <<"resolve", "construct">>]

\* cons: whether TickTickClient(auth_token) returns ("ok") or raises ("raise");
\* assigned: whether the global ticktick was set
initialize_client(id, e1, e2, cons) ==
    LET r == get_auth_token(id, e1, e2)
        auth_token == r.val
    IN  IF r.exc # "none"
        THEN [exc |-> r.exc, ret |-> FALSE, assigned |-> FALSE, client |-> None,
              auth_token |-> None, trace |-> <<"resolve">>]
        ELSE IF ~Truthy(auth_token)
        THEN [exc |-> "none", ret |-> FALSE, assigned |-> FALSE, client |-> None,
              auth_token |-> auth_token, trace |-> <<"resolve">>]
        ELSE IF cons = "raise"
        THEN [exc |-> "none", ret |-> FALSE, assigned |-> FALSE, client |-> None,
              auth_token |-> auth_token, trace |-> <<"resolve", "construct">>]
        ELSE [exc |-> "none", ret |-> TRUE, assigned |-> TRUE,
              client |-> TickTickClient(auth_token),
              auth_token |-> auth_token, trace |-> <<"resolve", "construct">>]

NotCalled == [t |-> "not called"]

\* a tool that initializes on every call
NeedsInitAlways(tk) == TRUE

\* `if not ticktick:` at the head of every data tool
NeedsInit(tk) == ~Truthy(tk)

\* a guard that remembers a failed initialization in the global
EnsureClientRemembering(tk, id, e1, e2, cons) ==
    LET init == initialize_client(id, e1, e2, cons) IN
    IF NeedsInit(tk)
    THEN [exc |-> init.exc, proceed |-> init.ret,
          ticktick |-> IF init.assigned THEN init.client ELSE PyStr(<<"failed">>),
          resolved |-> init.auth_token,
          trace |-> init.trace]
    ELSE [exc |-> "none", proceed |-> tk.t = "client", ticktick |-> tk,
          resolved |-> NotCalled, trace |-> <<>>]

\* if not ticktick: if not initialize_client(): return "Failed to initialize..."
EnsureClient(tk, id, e1, e2, cons) ==
    LET init == initialize_client(id, e1, e2, cons) IN
    IF NeedsInit(tk)
    THEN [exc |-> init.exc, proceed |-> init.ret,
          ticktick |-> IF init.assigned THEN init.client ELSE tk,
          resolved |-> init.auth_token,
          trace |-> init.trace]
    ELSE [exc |-> "none", proceed |-> TRUE, ticktick |-> tk, resolved |-> NotCalled,
          trace |-> <<>>]

----------------------------------------------------------------------------
(* Renderer: format_task and format_project *)

Lit(s) == PyStr(<<s>>)

Line(label, val) == [label |-> label, val |-> val]

Raised(e) == [exc |-> e, text |-> <<>>]

Returned(lines) == [exc |-> "none", text |-> lines]

IsDict(r) == r.t \in {"task", "project", "item"}

\* subtask lines that take the task's completion code, 2, for the subtask's
SubtaskLinesSymmetric(items) ==
    [i \in 1..Len(items) |->
        [label |-> "subtask", index |-> i,
         glyph |-> IF items[i].status = PyInt(2) THEN "checked" ELSE "unchecked",
         val |-> Get(items[i], "title", Lit("No title"))]]

\* the subtask lines: enumerate(items, 1)
SubtaskLines(items) ==
    [i \in 1..Len(items) |->
        [label |-> "subtask", index |-> i,
         glyph |-> IF items[i].status = PyInt(1) THEN "checked" ELSE "unchecked",
         val |-> Get(items[i], "title", Lit("No title"))]]

PriorityText(priority) ==
    CASE priority.v = 1 -> Lit("Low")
      [] priority.v = 3 -> Lit("Medium")
      [] priority.v = 5 -> Lit("High")
      [] OTHER -> [t |-> "str", v |-> <<"Priority">>, n |-> priority.v]

format_task(task) ==
    IF ~IsDict(task) THEN Raised("AttributeError") ELSE
    LET status == Get(task, "status", PyInt(0))
        priority == Get(task, "priority", PyInt(0))
        tags == Get(task, "tags", PyList(<<>>))
        items == Get(task, "items", PyList(<<>>))
        head == << Line("Title", Get(task, "title", Lit("No title"))),
                   Line("ID", Get(task, "id", Lit("No ID"))),
                   Line("Project ID", Get(task, "projectId", Lit("No project"))),
                   Line("Status", IF status = PyInt(2) THEN Lit("Completed")
                                                       ELSE Lit("Incomplete")) >>
        opt(label, key) == IF Truthy(task[key]) THEN <<Line(label, task[key])>> ELSE <<>>
    IN  IF priority.t # "int" THEN Raised("TypeError") ELSE
        Returned(
            head
            \o (IF priority.v > 0 THEN <<Line("Priority", PriorityText(priority))>> ELSE <<>>)
            \o opt("Content", "content")
            \o opt("Due Date", "dueDate")
            \o opt("Start Date", "startDate")
            \o (IF Truthy(tags) THEN <<Line("Tags", tags)>> ELSE <<>>)
            \o (IF Truthy(items)
                THEN <<Line("Subtasks", PyInt(Len(items.v)))>> \o SubtaskLines(items.v)
                ELSE <<>>))

format_project(project) ==
    IF ~IsDict(project) THEN Raised("AttributeError") ELSE
    LET opt(label, key) ==
            IF Truthy(project[key]) THEN <<Line(label, project[key])>> ELSE <<>>
    IN  Returned(
            << Line("Name", Get(project, "name", Lit("No name"))),
               Line("ID", Get(project, "id", Lit("No ID"))) >>
            \o opt("Color", "color")
            \o opt("View Mode", "viewMode")
            \o (IF project.closed # Absent
                THEN <<Line("Closed", IF Truthy(project.closed) THEN Lit("Yes") ELSE Lit("No"))>>
                ELSE <<>>)
            \o opt("Kind", "kind"))

----------------------------------------------------------------------------
(* QueryPipeline: search-by-term *)

\* str.lower(), character by character
LowerChar(c) ==
    CASE c = "A" -> "a"
      [] c = "B" -> "b"
      [] OTHER -> c

Lower(s) == [i \in 1..Len(s) |-> LowerChar(s[i])]

\* `sub in s` on strings
IsSubstring(sub, s) ==
    \E k \in 0..(Len(s) - Len(sub)) :
        \A j \in 1..Len(sub) : s[k + j] = sub[j]

\* search_lower in <field>.lower(): a field that is not a string has no lower()
FieldHit(search_lower, field) ==
    IF field.t # "str"
    THEN [exc |-> "AttributeError", hit |-> FALSE]
    ELSE [exc |-> "none", hit |-> IsSubstring(search_lower, Lower(field.v))]

\* the inner loop without its break: one append for every matching subtask
RECURSIVE ItemsLoopNoBreak(_, _, _, _, _)
ItemsLoopNoBreak(items, search_lower, j, i, acc) ==
    IF j > Len(items) THEN [exc |-> "none", sel |-> acc] ELSE
    LET h == FieldHit(search_lower, Get(items[j], "title", EmptyStr)) IN
    IF h.exc # "none" THEN [exc |-> h.exc, sel |-> acc]
    ELSE ItemsLoopNoBreak(items, search_lower, j + 1, i,
                          IF h.hit THEN Append(acc, i) ELSE acc)

\* the inner loop over the subtasks of task i: append once and break
RECURSIVE ItemsLoop(_, _, _, _, _)
ItemsLoop(items, search_lower, j, i, acc) ==
    IF j > Len(items) THEN [exc |-> "none", sel |-> acc] ELSE
    LET h == FieldHit(search_lower, Get(items[j], "title", EmptyStr)) IN
    IF h.exc # "none" THEN [exc |-> h.exc, sel |-> acc]
    ELSE IF h.hit THEN [exc |-> "none", sel |-> Append(acc, i)]
    ELSE ItemsLoop(items, search_lower, j + 1, i, acc)

\* one iteration of `for task in tasks`: title or content, else the subtasks
SearchOne(task, search_lower, i, acc) ==
    IF ~IsDict(task) THEN [exc |-> "AttributeError", sel |-> acc] ELSE
    LET ht == FieldHit(search_lower, Get(task, "title", EmptyStr))
        hc == FieldHit(search_lower, Get(task, "content", EmptyStr))
        items == Get(task, "items", PyList(<<>>))
    IN  IF ht.exc # "none" THEN [exc |-> ht.exc, sel |-> acc]
        ELSE IF ht.hit THEN [exc |-> "none", sel |-> Append(acc, i)]
        ELSE IF hc.exc # "none" THEN [exc |-> hc.exc, sel |-> acc]
        ELSE IF hc.hit THEN [exc |-> "none", sel |-> Append(acc, i)]
        ELSE IF items.t # "list" THEN [exc |-> "TypeError", sel |-> acc]
        ELSE ItemsLoop(items.v, search_lower, 1, i, acc)

RECURSIVE SearchLoop(_, _, _, _)
SearchLoop(tasks, search_lower, i, acc) ==
    IF i > Len(tasks) THEN [exc |-> "none", sel |-> acc] ELSE
    LET r == SearchOne(tasks[i], search_lower, i, acc) IN
    IF r.exc # "none" THEN r ELSE SearchLoop(tasks, search_lower, i + 1, r.sel)

----------------------------------------------------------------------------
(* QueryPipeline: due-today *)

DateLex == {"D1", "D2"}

OffsetLex == {"+00:00", "-05:00"}

\* a due date parsed without the replacement of Z
ReplaceZSkipped(s) == s

\* str.replace('Z', '+00:00'): every occurrence
ReplaceZ(s) == [i \in 1..Len(s) |-> IF s[i] = "Z" THEN "+00:00" ELSE s[i]]

\* datetime.fromisoformat(s).date(): a date, optionally a time, optionally an
\* offset after the time; the date is the one written, in the string's own offset
fromisoformat_date(s) ==
    IF \/ (Len(s) = 1 /\ s[1] \in DateLex)
       \/ (Len(s) = 2 /\ s[1] \in DateLex /\ s[2] = "T")
       \/ (Len(s) = 3 /\ s[1] \in DateLex /\ s[2] = "T" /\ s[3] \in OffsetLex)
    THEN [exc |-> "none", date |-> s[1]]
    ELSE [exc |-> "ValueError", date |-> "none"]

\* one iteration of `for task in tasks` of get_tasks_due_today
DueOne(task, today, i, acc) ==
    IF ~IsDict(task) THEN [exc |-> "AttributeError", sel |-> acc] ELSE
    LET due_date_str == Get(task, "dueDate", None) IN
    IF ~Truthy(due_date_str) THEN [exc |-> "none", sel |-> acc]
    ELSE IF due_date_str.t # "str" THEN [exc |-> "AttributeError", sel |-> acc]
    ELSE LET d == fromisoformat_date(ReplaceZ(due_date_str.v)) IN
         IF d.exc = "ValueError" THEN [exc |-> "none", sel |-> acc]
         ELSE IF d.date = today THEN [exc |-> "none", sel |-> Append(acc, i)]
         ELSE [exc |-> "none", sel |-> acc]

RECURSIVE DueLoop(_, _, _, _)
DueLoop(tasks, today, i, acc) ==
    IF i > Len(tasks) THEN [exc |-> "none", sel |-> acc] ELSE
    LET r == DueOne(tasks[i], today, i, acc) IN
    IF r.exc # "none" THEN r ELSE DueLoop(tasks, today, i + 1, r.sel)

----------------------------------------------------------------------------
(* Upstream payloads and tool responses *)

\* what a call on the upstream client yields: a list of records, a dict with
\* an error key, or a raised fault
ErrorPayload(msg) == [t |-> "errdict", error |-> Lit(msg)]

RaisedFault(msg) == [t |-> "raise", msg |-> Lit(msg)]

\* iterating the payload: the elements of a list, the keys of a dict
Records(p) == IF p.t = "list" THEN p.v ELSE <<Lit("error")>>

\* a tool that never looks for the error key
ErrorInNever(p) == FALSE

\* 'error' in payload: a key of the dict, or an element of the list
ErrorIn(p) ==
    IF p.t = "list"
    THEN \E i \in 1..Len(p.v) : p.v[i] = Lit("error")
    ELSE p.t = "errdict"

\* the string a tool returns: the literal part (head), the interpolated values
\* (detail, n) and the rendered entries in order; src is the position in the
\* fetched sequence of the record an entry renders
Text(head, detail, n, entries) ==
    [kind |-> "text", head |-> head, detail |-> detail, n |-> n, entries |-> entries]

Plain(head) == Text(head, None, 0, <<>>)

\* an exception that leaves the tool function: the caller gets no string
Escaped(e) ==
    [kind |-> "exception", head |-> "", detail |-> Lit(e), n |-> 0, entries |-> <<>>]

\* an except clause that returns what was rendered so far with the error
ExceptResponseKeepPartial(head, e, partial) ==
    [kind |-> "text", head |-> head, detail |-> e, n |-> 0, entries |-> partial]

\* except Exception as e: return f"Error ...: {str(e)}"; the partial result
\* built before the fault is dropped
ExceptResponse(head, e, partial) == Text(head, e, 0, <<>>)

InitFailedText ==
    "Failed to initialize TickTick client. Please check your AUTH_TOKEN environment variable."

\* the same sentence behind the cross-mark glyph of test_ticktick_connection
ConnInitFailedText ==
    "[X] Failed to initialize TickTick client. Please check your AUTH_TOKEN environment variable."

\* for i, rec in enumerate(selected, 1): result += f"... {i}:\n{format(rec)}\n"
RECURSIVE RenderLoop(_, _, _, _, _)
RenderLoop(what, recs, sel, i, acc) ==
    IF i > Len(sel) THEN [exc |-> "none", entries |-> acc] ELSE
    LET f == IF what = "project" THEN format_project(recs[sel[i]])
                                 ELSE format_task(recs[sel[i]])
    IN  IF f.exc # "none" THEN [exc |-> f.exc, entries |-> acc]
        ELSE RenderLoop(what, recs, sel, i + 1,
                        Append(acc, [index |-> i, src |-> sel[i], text |-> f.text]))

AllOf(recs) == [i \in 1..Len(recs) |-> i]

\* the part of a listing tool after the fetch: the empty case, then the header
\* and the entries
Listing(what, recs, sel, heads) ==
    IF sel = <<>> THEN [trace |-> <<"render">>, response |-> Plain(heads.none)] ELSE
    LET r == RenderLoop(what, recs, sel, 1, <<>>) IN
    [trace |-> <<"render">>,
     response |-> IF r.exc # "none"
                  THEN ExceptResponse(heads.except, Lit(r.exc), r.entries)
                  ELSE Text(heads.found, None, Len(sel), r.entries)]

\* the tools that list without filtering
NoFilter == [kind |-> "all", exc |-> "none", sel |-> <<>>]

Filtered(r) == [kind |-> "filter", exc |-> r.exc, sel |-> r.sel]

\* try: payload = ticktick.get_...(); if 'error' in payload: return f"Error fetching ..."
\* then filter (flt: the filter's result, "all" when the tool has none) and render
ToolBody(tk, p, what, flt, heads) ==
    IF tk.t # "client"
    THEN [token |-> None, trace |-> <<>>,
          response |-> ExceptResponse(heads.except, Lit("AttributeError"), <<>>)]
    ELSE IF p.t = "raise"
    THEN [token |-> tk.token, trace |-> <<"fetch">>,
          response |-> ExceptResponse(heads.except, p.msg, <<>>)]
    ELSE IF ErrorIn(p)
    THEN [token |-> tk.token, trace |-> <<"fetch">>,
          response |-> IF p.t = "errdict"
                       THEN Text(heads.error, p.error, 0, <<>>)
                       ELSE ExceptResponse(heads.except, Lit("TypeError"), <<>>)]
    ELSE IF flt.kind = "all"
    THEN LET l == Listing(what, Records(p), AllOf(Records(p)), heads) IN
         [token |-> tk.token, trace |-> <<"fetch">> \o l.trace, response |-> l.response]
    ELSE IF flt.exc # "none"
    THEN [token |-> tk.token, trace |-> <<"fetch", "filter">>,
          response |-> ExceptResponse(heads.except, Lit(flt.exc), <<>>)]
    ELSE LET l == Listing(what, Records(p), flt.sel, heads) IN
         [token |-> tk.token, trace |-> <<"fetch", "filter">> \o l.trace,
          response |-> l.response]

get_projects(tk, p) ==
    ToolBody(tk, p, "project", NoFilter,
        [except |-> "Error getting projects: ", error |-> "Error fetching projects: ",
         none |-> "No projects found.", found |-> "Found {n} projects:"])

get_project_tasks(tk, p) ==
    ToolBody(tk, p, "task", NoFilter,
        [except |-> "Error getting project tasks: ", error |-> "Error fetching tasks: ",
         none |-> "No tasks found in project {project_id}.",
         found |-> "Found {n} tasks in project {project_id}:"])

get_all_tasks(tk, p) ==
    ToolBody(tk, p, "task", NoFilter,
        [except |-> "Error getting all tasks: ", error |-> "Error fetching tasks: ",
         none |-> "No tasks found.", found |-> "Found {n} tasks:"])

search_tasks(tk, p, search_term) ==
    ToolBody(tk, p, "task", Filtered(SearchLoop(Records(p), Lower(search_term), 1, <<>>)),
        [except |-> "Error searching tasks: ", error |-> "Error fetching tasks: ",
         none |-> "No tasks found matching '{search_term}'.",
         found |-> "Found {n} tasks matching '{search_term}':"])

get_tasks_due_today(tk, p, today) ==
    ToolBody(tk, p, "task", Filtered(DueLoop(Records(p), today, 1, <<>>)),
        [except |-> "Error getting tasks due today: ", error |-> "Error fetching tasks: ",
         none |-> "No tasks are due today.", found |-> "Found {n} tasks due today:"])

test_ticktick_connection(tk, p) ==
    IF tk.t # "client"
    THEN [token |-> None, trace |-> <<>>,
          response |-> ExceptResponse("[X] TickTick connection failed: ",
                                      Lit("AttributeError"), <<>>)]
    ELSE IF p.t = "raise"
    THEN [token |-> tk.token, trace |-> <<"fetch">>,
          response |-> ExceptResponse("[X] TickTick connection failed: ", p.msg, <<>>)]
    ELSE IF ErrorIn(p)
    THEN [token |-> tk.token, trace |-> <<"fetch">>,
          response |-> IF p.t = "errdict"
                       THEN Text("[X] TickTick API error: ", p.error, 0, <<>>)
                       ELSE ExceptResponse("[X] TickTick connection failed: ",
                                           Lit("TypeError"), <<>>)]
    ELSE [token |-> tk.token, trace |-> <<"fetch", "render">>,
          response |-> Text("[OK] TickTick connection successful! Found {n} projects.",
                            None, Len(Records(p)), <<>>)]

----------------------------------------------------------------------------
(* Records *)

Task(title, content, items, dueDate, priority) ==
    [t |-> "task", title |-> title, id |-> Lit("t"), projectId |-> Lit("p1"),
     status |-> PyInt(0), priority |-> priority, content |-> content,
     dueDate |-> dueDate, startDate |-> Absent, tags |-> Absent, items |-> items]

Item(title, status) == [t |-> "item", title |-> title, status |-> status]

Project(name, closed) ==
    [t |-> "project", name |-> name, id |-> Lit("p1"), color |-> Absent,
     viewMode |-> Absent, closed |-> closed, kind |-> Absent]

----------------------------------------------------------------------------
(* The process: the session, the ambient credentials, the last tool call *)

NoCall ==
    [seq |-> 0, tool |-> "none", arg |-> None, today |-> "none", payload |-> NotCalled,
     resolved |-> NotCalled, trace |-> <<>>, token |-> None,
     response |-> [kind |-> "none", head |-> "", detail |-> None, n |-> 0,
                   entries |-> <<>>]]

TokId == Lit("identity-token")

TokEnv1 == Lit("env-token-1")

TokEnv2 == Lit("env-token-2")

Identities ==
    {None, IdentityRaises, IdentityObj(Absent), IdentityObj(None), IdentityObj(TokId)}

Env1Values == {None, TokEnv1}

Env2Values == {None, EmptyStr, TokEnv2}

\* the constructor is called only when a token was resolved and no session exists
ConsOutcomes ==
    IF NeedsInit(ticktick)
       /\ Truthy(get_auth_token(identity, env_ticktick_auth_token, env_auth_token).val)
    THEN {"ok", "raise"}
    ELSE {"ok"}

\* a data tool: the session guard, then the body on the session now stored
\* a data tool that answers from the previous call's records when it can
CallCached(tool, arg, today, p, e, body) ==
    /\ ticktick' = e.ticktick
    /\ call' = IF e.exc # "none"
               THEN [seq |-> 1 - call.seq, tool |-> tool, arg |-> arg, today |-> today,
                     payload |-> NotCalled, resolved |-> e.resolved, trace |-> e.trace,
                     token |-> None, response |-> Escaped(e.exc)]
               ELSE IF e.proceed
               THEN [seq |-> 1 - call.seq, tool |-> tool, arg |-> arg, today |-> today,
                     payload |-> p, resolved |-> e.resolved,
                     trace |-> e.trace \o body.trace,
                     token |-> body.token,
                     response |-> IF call.tool = tool /\ call.payload # NotCalled
                                  THEN call.response ELSE body.response]
               ELSE [seq |-> 1 - call.seq, tool |-> tool, arg |-> arg, today |-> today,
                     payload |-> NotCalled, resolved |-> e.resolved, trace |-> e.trace,
                     token |-> None,
                     response |-> Plain(IF tool = "test_ticktick_connection"
                                        THEN ConnInitFailedText ELSE InitFailedText)]
    /\ UNCHANGED <<identity, env_ticktick_auth_token, env_auth_token>>

\* one data tool call: the session guard e, then the body on the fetched payload p
Call(tool, arg, today, p, e, body) ==
    /\ ticktick' = e.ticktick
    /\ call' = IF e.exc # "none"
               THEN [seq |-> 1 - call.seq, tool |-> tool, arg |-> arg, today |-> today,
                     payload |-> NotCalled, resolved |-> e.resolved, trace |-> e.trace,
                     token |-> None, response |-> Escaped(e.exc)]
               ELSE IF e.proceed
               THEN [seq |-> 1 - call.seq, tool |-> tool, arg |-> arg, today |-> today,
                     payload |-> p, resolved |-> e.resolved,
                     trace |-> e.trace \o body.trace,
                     token |-> body.token, response |-> body.response]
               ELSE [seq |-> 1 - call.seq, tool |-> tool, arg |-> arg, today |-> today,
                     payload |-> NotCalled, resolved |-> e.resolved, trace |-> e.trace,
                     token |-> None,
                     response |-> Plain(IF tool = "test_ticktick_connection"
                                        THEN ConnInitFailedText ELSE InitFailedText)]
    /\ UNCHANGED <<identity, env_ticktick_auth_token, env_auth_token>>

Ensure(cons) ==
    EnsureClient(ticktick, identity, env_ticktick_auth_token, env_auth_token, cons)

DoGetProjects(p, cons) ==
    LET e == Ensure(cons) IN
    Call("get_projects", None, "none", p, e, get_projects(e.ticktick, p))

DoGetProjectTasks(project_id, p, cons) ==
    LET e == Ensure(cons) IN
    Call("get_project_tasks", project_id, "none", p, e, get_project_tasks(e.ticktick, p))

DoGetAllTasks(p, cons) ==
    LET e == Ensure(cons) IN
    Call("get_all_tasks", None, "none", p, e, get_all_tasks(e.ticktick, p))

DoSearchTasks(search_term, p, cons) ==
    LET e == Ensure(cons) IN
    Call("search_tasks", PyStr(search_term), "none", p, e,
         search_tasks(e.ticktick, p, search_term))

DoGetTasksDueToday(today, p, cons) ==
    LET e == Ensure(cons) IN
    Call("get_tasks_due_today", None, today, p, e, get_tasks_due_today(e.ticktick, p, today))

DoTestConnection(p, cons) ==
    LET e == Ensure(cons) IN
    Call("test_ticktick_connection", None, "none", p, e,
         test_ticktick_connection(e.ticktick, p))

\* a probe that goes through the session guard of the data tools
ping_guarded ==
    LET e == Ensure("ok") IN
    /\ ticktick' = e.ticktick
    /\ call' = [seq |-> 1 - call.seq, tool |-> "ping", arg |-> None, today |-> "none",
                payload |-> NotCalled, resolved |-> e.resolved, trace |-> e.trace,
                token |-> None,
                response |-> Plain(IF e.proceed THEN "pong" ELSE InitFailedText)]
    /\ UNCHANGED <<identity, env_ticktick_auth_token, env_auth_token>>

\* ping: return "pong"
ping ==
    /\ call' = [seq |-> 1 - call.seq, tool |-> "ping", arg |-> None, today |-> "none", payload |-> NotCalled,
                resolved |-> NotCalled, trace |-> <<>>, token |-> None,
                response |-> Plain("pong")]
    /\ UNCHANGED <<ticktick, identity, env_ticktick_auth_token, env_auth_token>>

\* no request waiting to be served
NoRequest == [tool |-> "none"]

----------------------------------------------------------------------------
(* Inputs *)

MaxTasks == 2

Corpora(S) == UNION {[1..n -> S] : n \in 0..MaxTasks}

TaskA ==
    Task(PyStr(<<"a", "B">>), PyStr(<<"b">>),
         PyList(<<Item(PyStr(<<"A">>), PyInt(1))>>),
         PyStr(<<"D1", "T", "Z">>), PyInt(1))

TaskPlain == Task(PyStr(<<"c">>), Absent, Absent, Absent, Absent)

TaskNull == Task(None, None, Absent, None, None)

Faults == {RaisedFault("timeout"), ErrorPayload("rate limited")}

TaskPayloads ==
    Faults \cup {PyList(<<>>), PyList(<<TaskA>>), PyList(<<TaskA, TaskNull>>)}

ProjectPayloads ==
    Faults \cup {PyList(<<>>),
                 PyList(<<Project(Lit("Inbox"), Absent), Project(Absent, PyBool(TRUE))>>)}

ProjectIds == {Lit("p1")}

Terms == {<<"A">>}

\* the texts of the search corpora: mixed case, empty, missing key, null
SearchTitles == {Absent, None, PyStr(<<"A", "b">>)}

SearchContents == {EmptyStr, None, PyStr(<<"b", "a">>)}

SearchItems ==
    {Absent,
     PyList(<<Item(PyStr(<<"c">>), PyInt(0)), Item(PyStr(<<"a">>), PyInt(1)),
              Item(PyStr(<<"b", "A">>), PyInt(0))>>)}

SearchTasks ==
    {Task(ti, co, it, Absent, PyInt(0)) :
        ti \in SearchTitles, co \in SearchContents, it \in SearchItems}

SearchTerms == {<<"a">>, <<"A">>, <<"b", "a">>, <<"B", "A">>}

\* the due dates of the due-today corpora: missing, null, empty, date only,
\* date and time with Z, with an offset, without one, and unparsable ones
DueValues ==
    {Absent, None, EmptyStr,
     PyStr(<<"D1">>), PyStr(<<"D1", "T", "Z">>), PyStr(<<"D2", "T", "Z">>),
     PyStr(<<"D1", "T", "-05:00">>), PyStr(<<"D2", "T">>),
     PyStr(<<"x">>), PyStr(<<"D1", "T", "Z", "x">>)}

DueTasks == {Task(Lit("t"), Absent, Absent, d, PyInt(0)) : d \in DueValues}

RenderTasks == {TaskA, TaskPlain, TaskNull}

----------------------------------------------------------------------------
(* The process with its ambient credentials changing *)

Init ==
    /\ ticktick = None
    /\ identity \in Identities
    /\ env_ticktick_auth_token \in Env1Values
    /\ env_auth_token \in Env2Values
    /\ call = NoCall
    /\ pending = NoRequest

GetProjects ==
    /\ \E p \in ProjectPayloads, cons \in ConsOutcomes : DoGetProjects(p, cons)
    /\ UNCHANGED pending

GetProjectTasks ==
    /\ \E pid \in ProjectIds, p \in TaskPayloads, cons \in ConsOutcomes :
            DoGetProjectTasks(pid, p, cons)
    /\ UNCHANGED pending

GetAllTasks ==
    /\ \E p \in TaskPayloads, cons \in ConsOutcomes : DoGetAllTasks(p, cons)
    /\ UNCHANGED pending

SearchTasksCall ==
    /\ \E term \in Terms, p \in TaskPayloads, cons \in ConsOutcomes :
            DoSearchTasks(term, p, cons)
    /\ UNCHANGED pending

GetTasksDueToday ==
    /\ \E today \in DateLex, p \in TaskPayloads, cons \in ConsOutcomes :
            DoGetTasksDueToday(today, p, cons)
    /\ UNCHANGED pending

TestTicktickConnection ==
    /\ \E p \in ProjectPayloads, cons \in ConsOutcomes : DoTestConnection(p, cons)
    /\ UNCHANGED pending

Ping == ping /\ UNCHANGED pending

\* the hosting layer attaches another identity to the next request
SetIdentity ==
    /\ \E id \in Identities : identity' = id
    /\ UNCHANGED <<ticktick, env_ticktick_auth_token, env_auth_token, call, pending>>

SetEnvTicktickAuthToken ==
    /\ \E v \in Env1Values : env_ticktick_auth_token' = v
    /\ UNCHANGED <<ticktick, identity, env_auth_token, call, pending>>

SetEnvAuthToken ==
    /\ \E v \in Env2Values : env_auth_token' = v
    /\ UNCHANGED <<ticktick, identity, env_ticktick_auth_token, call, pending>>

Next ==
    \/ GetProjects
    \/ GetProjectTasks
    \/ GetAllTasks
    \/ SearchTasksCall
    \/ GetTasksDueToday
    \/ TestTicktickConnection
    \/ Ping
    \/ SetIdentity
    \/ SetEnvTicktickAuthToken
    \/ SetEnvAuthToken

Spec == Init /\ [][Next]_vars

----------------------------------------------------------------------------
(* The query pipeline on whole corpora: one request, drawn at the start, served *)
(* by a process with one credential in its environment                         *)

Requests ==
    {[tool |-> "get_all_tasks", arg |-> None, today |-> "none", payload |-> PyList(recs)] :
        recs \in Corpora(RenderTasks)}
    \cup
    {[tool |-> "get_project_tasks", arg |-> pid, today |-> "none", payload |-> PyList(recs)] :
        pid \in ProjectIds, recs \in Corpora(RenderTasks)}
    \cup
    {[tool |-> "search_tasks", arg |-> PyStr(term), today |-> "none", payload |-> PyList(recs)] :
        term \in SearchTerms, recs \in Corpora(SearchTasks)}
    \cup
    {[tool |-> "search_tasks", arg |-> PyStr(term), today |-> "none", payload |-> p] :
        term \in SearchTerms, p \in Faults}
    \cup
    {[tool |-> "get_tasks_due_today", arg |-> None, today |-> today, payload |-> PyList(recs)] :
        today \in DateLex, recs \in Corpora(DueTasks)}

QueryInit ==
    /\ ticktick = None
    /\ identity = None
    /\ env_ticktick_auth_token = TokEnv1
    /\ env_auth_token = None
    /\ call = NoCall
    /\ pending \in Requests

Serve(tool) ==
    /\ pending # NoRequest
    /\ pending.tool = tool
    /\ pending' = NoRequest

QueryAll ==
    /\ Serve("get_all_tasks")
    /\ \E cons \in ConsOutcomes : DoGetAllTasks(pending.payload, cons)

QueryByProject ==
    /\ Serve("get_project_tasks")
    /\ \E cons \in ConsOutcomes : DoGetProjectTasks(pending.arg, pending.payload, cons)

QuerySearch ==
    /\ Serve("search_tasks")
    /\ \E cons \in ConsOutcomes : DoSearchTasks(pending.arg.v, pending.payload, cons)

QueryDueToday ==
    /\ Serve("get_tasks_due_today")
    /\ \E cons \in ConsOutcomes : DoGetTasksDueToday(pending.today, pending.payload, cons)

QueryNext ==
    \/ QueryAll
    \/ QueryByProject
    \/ QuerySearch
    \/ QueryDueToday

SpecQuery == QueryInit /\ [][QueryNext]_vars

----------------------------------------------------------------------------
(* Properties of the tool surface and the session *)

\* a step that is a tool call (every call flips call.seq)
ToolStep == call'.seq # call.seq

InTrace(stage, tr) == \E i \in 1..Len(tr) : tr[i] = stage

FailedInitTexts == {InitFailedText, ConnInitFailedText}

\* the literal parts of the responses that report a failure
ErrorHeads ==
    FailedInitTexts \cup
    {"Error getting projects: ", "Error fetching projects: ",
     "Error getting project tasks: ", "Error fetching tasks: ",
     "Error getting all tasks: ", "Error searching tasks: ",
     "Error getting tasks due today: ",
     "[X] TickTick connection failed: ", "[X] TickTick API error: "}

\* "identity absent, both environment variables empty"
NoCredential ==
    /\ identity.t # "obj"
    /\ ~Truthy(env_ticktick_auth_token)
    /\ ~Truthy(env_auth_token)

\* C1: every tool call, in every session and credential state and for every
\* upstream outcome, ends by returning a text; no exception leaves the tool
C1_AlwaysText == call.tool # "none" => call.response.kind = "text"

\* a call that resolved credentials while get_identity() raises, then met an
\* upstream fault, and still returned a text
C1_Witness ==
    /\ identity = IdentityRaises
    /\ call.resolved # NotCalled
    /\ call.payload.t = "raise"
    /\ call.response.kind = "text"

\* C2: once a session is stored, a later call neither resolves credentials nor
\* constructs a session, the stored session is never replaced or cleared, and
\* every upstream call carries the stored token
C2_SessionReused ==
    [][Truthy(ticktick) =>
          /\ ticktick' = ticktick
          /\ ToolStep =>
                /\ ~InTrace("resolve", call'.trace)
                /\ ~InTrace("construct", call'.trace)
                /\ call'.resolved = NotCalled
                /\ InTrace("fetch", call'.trace) => call'.token = ticktick.token]_vars

\* a fetch made with the stored token although the ambient state now resolves
\* to another credential
C2_Witness ==
    /\ Truthy(ticktick)
    /\ call.resolved = NotCalled
    /\ InTrace("fetch", call.trace)
    /\ call.token = ticktick.token
    /\ get_auth_token(identity, env_ticktick_auth_token, env_auth_token).val
          # ticktick.token

\* C3 as stated: with no credential resolvable, any tool call returns a text
\* containing "Failed to initialize" and no task data
C3_Original ==
    [][(NoCredential /\ ToolStep) =>
          /\ call'.response.head \in FailedInitTexts
          /\ call'.response.entries = <<>>]_vars

\* C3 amended: with no credential resolvable and no session stored, any tool
\* call other than ping returns a text containing "Failed to initialize", makes
\* no fetch and returns no task data
C3_FailedToInitialize ==
    [][(NoCredential /\ ~Truthy(ticktick) /\ ToolStep /\ call'.tool # "ping") =>
          /\ call'.response.kind = "text"
          /\ call'.response.head \in FailedInitTexts
          /\ call'.response.entries = <<>>
          /\ call'.payload = NotCalled
          /\ ~InTrace("fetch", call'.trace)
          /\ ticktick' = ticktick]_vars

C3_Witness ==
    /\ NoCredential
    /\ ~Truthy(ticktick)
    /\ call.tool = "search_tasks"
    /\ call.resolved # NotCalled
    /\ call.response.head = InitFailedText

\* the first non-empty source in priority order, None when all are empty
FirstSource(id, e1, e2) ==
    IF id.t = "obj" /\ Truthy(id.access_token) THEN id.access_token
    ELSE IF Truthy(e1) THEN e1
    ELSE IF Truthy(e2) THEN e2
    ELSE None

\* C4 as stated: resolution returns the first non-empty source in the order
\* identity, TICKTICK_AUTH_TOKEN, AUTH_TOKEN; it is empty only when every source
\* is; a non-empty environment token always gives a non-empty result
C4_Original ==
    [][(ToolStep /\ call'.resolved # NotCalled) =>
          /\ call'.response.kind = "text"
          /\ Truthy(call'.resolved) =>
                call'.resolved =
                    FirstSource(identity, env_ticktick_auth_token, env_auth_token)
          /\ (Truthy(env_ticktick_auth_token) \/ Truthy(env_auth_token)) =>
                Truthy(call'.resolved)]_vars

\* C5: an upstream error payload gives a response with the upstream message and
\* no entries; no response carries both an error indicator and rendered records
C5_NoPartialResults ==
    /\ call.response.head \in ErrorHeads => call.response.entries = <<>>
    /\ call.payload.t = "errdict" =>
          /\ call.response.head \in ErrorHeads
          /\ call.response.detail = call.payload.error
          /\ call.response.entries = <<>>
    /\ call.payload.t = "raise" =>
          /\ call.response.head \in ErrorHeads
          /\ call.response.entries = <<>>

\* a fault while rendering the second record, after the first was rendered
C5_Witness ==
    /\ call.tool = "get_all_tasks"
    /\ call.payload = PyList(<<TaskA, TaskNull>>)
    /\ call.response.head = "Error getting all tasks: "
    /\ call.response.entries = <<>>

Rank(stage) ==
    CASE stage = "resolve" -> 1
      [] stage = "construct" -> 2
      [] stage = "fetch" -> 3
      [] stage = "filter" -> 4
      [] stage = "render" -> 5

DataTools ==
    {"get_projects", "get_project_tasks", "get_all_tasks", "search_tasks",
     "get_tasks_due_today", "test_ticktick_connection"}

\* C6: a data tool call passes the stages in the order get-or-create, fetch,
\* filter, render; a failed initialization makes no fetch, a failed fetch no
\* filtering or rendering, and no stage is entered before the one before it
\* has succeeded
C6_StageOrder ==
    call.tool \in DataTools =>
        LET tr == call.trace IN
        /\ \A i, j \in 1..Len(tr) : i < j => Rank(tr[i]) < Rank(tr[j])
        /\ call.response.head \in FailedInitTexts => ~InTrace("fetch", tr)
        /\ InTrace("construct", tr) => Truthy(call.resolved)
        /\ InTrace("fetch", tr) =>
              /\ Truthy(ticktick)
              /\ call.token = ticktick.token
              /\ call.resolved # NotCalled => InTrace("construct", tr)
        /\ (InTrace("filter", tr) \/ InTrace("render", tr)) =>
              /\ InTrace("fetch", tr)
              /\ call.payload.t = "list"
        /\ (InTrace("render", tr) /\ call.tool \in {"search_tasks", "get_tasks_due_today"})
              => InTrace("filter", tr)
        /\ call.payload.t \in {"raise", "errdict"} =>
              /\ ~InTrace("filter", tr)
              /\ ~InTrace("render", tr)
              /\ call.response.entries = <<>>

\* a call that went through every stage
C6_Witness ==
    /\ call.tool = "search_tasks"
    /\ call.trace = <<"resolve", "construct", "fetch", "filter", "render">>
    /\ call.response.head = "Found {n} tasks matching '{search_term}':"

----------------------------------------------------------------------------
(* Properties of the query pipeline *)

SearchCall == call.tool = "search_tasks" /\ call.payload.t = "list"

DueCall == call.tool = "get_tasks_due_today" /\ call.payload.t = "list"

\* the positions, in the fetched sequence, of the rendered entries
Srcs(resp) == [k \in 1..Len(resp.entries) |-> resp.entries[k].src]

SrcSet(resp) == {resp.entries[k].src : k \in 1..Len(resp.entries)}

\* a text field read as the claims read it: empty when missing, null or empty
TextOf(v) == IF v.t = "str" THEN v.v ELSE <<>>

\* term occurs in text, letter case ignored
OccursIn(term, text) ==
    \E k \in 0..(Len(text) - Len(term)) :
        \A j \in 1..Len(term) : LowerChar(text[k + j]) = LowerChar(term[j])

SubtasksOf(task) == IF task.items.t = "list" THEN task.items.v ELSE <<>>

Matches(task, term) ==
    \/ OccursIn(term, TextOf(task.title))
    \/ OccursIn(term, TextOf(task.content))
    \/ \E j \in 1..Len(SubtasksOf(task)) : OccursIn(term, TextOf(SubtasksOf(task)[j].title))

LacksText(task) ==
    \/ task.title \in {Absent, None, EmptyStr}
    \/ task.content \in {Absent, None, EmptyStr}

\* C7 as stated: search_tasks selects exactly the fetched tasks in which the
\* term occurs, letter case ignored, in the title, the content or the title of a
\* subtask
C7_Original ==
    SearchCall =>
        /\ call.response.head \notin ErrorHeads
        /\ SrcSet(call.response) =
              {i \in 1..Len(call.payload.v) : Matches(call.payload.v[i], call.arg.v)}

\* C8 as stated: a task whose title or content is empty, missing or null never
\* makes the search fail, and is selected exactly when the term occurs in
\* another of its fields or subtask titles
C8_Original ==
    (SearchCall /\ \E i \in 1..Len(call.payload.v) : LacksText(call.payload.v[i])) =>
        /\ call.response.head # "Error searching tasks: "
        /\ \A i \in 1..Len(call.payload.v) :
              LacksText(call.payload.v[i]) =>
                  (i \in SrcSet(call.response) <=> Matches(call.payload.v[i], call.arg.v))

\* what the code does hold of the search: on a corpus whose titles and contents
\* are strings or missing keys, the selection is exact
SearchExactOnStrings ==
    (SearchCall /\ \A i \in 1..Len(call.payload.v) :
                      /\ call.payload.v[i].title # None
                      /\ call.payload.v[i].content # None) =>
        /\ call.response.head \notin ErrorHeads
        /\ SrcSet(call.response) =
              {i \in 1..Len(call.payload.v) : Matches(call.payload.v[i], call.arg.v)}

\* the timestamps that are valid, a trailing Z read as UTC
ValidStamps ==
    {<<d>> : d \in DateLex} \cup {<<d, "T">> : d \in DateLex}
    \cup {<<d, "T", o>> : d \in DateLex, o \in OffsetLex \cup {"Z"}}

DueOn(task, today) ==
    /\ task.dueDate.t = "str"
    /\ task.dueDate.v \in ValidStamps
    /\ task.dueDate.v[1] = today

\* C9: get_tasks_due_today selects exactly the tasks whose due date is present,
\* valid (a trailing Z accepted) and on today's UTC date; a missing, null or
\* unparsable due date excludes the task without an error, and the others are
\* returned
C9_DueToday ==
    DueCall =>
        /\ call.response.kind = "text"
        /\ call.response.head \in {"No tasks are due today.", "Found {n} tasks due today:"}
        /\ SrcSet(call.response) =
              {i \in 1..Len(call.payload.v) : DueOn(call.payload.v[i], call.today)}
        /\ Len(call.response.entries) = Cardinality(SrcSet(call.response))

\* the scenario of the specification: one task due today with a Z suffix, one
\* task with a null due date
C9_Witness ==
    /\ DueCall
    /\ call.today = "D1"
    /\ call.payload =
          PyList(<<Task(Lit("t"), Absent, Absent, PyStr(<<"D1", "T", "Z">>), PyInt(0)),
                   Task(Lit("t"), Absent, Absent, None, PyInt(0))>>)
    /\ call.response.head = "Found {n} tasks due today:"
    /\ Srcs(call.response) = <<1>>

FoundHeads ==
    {"Found {n} projects:", "Found {n} tasks in project {project_id}:",
     "Found {n} tasks:", "Found {n} tasks matching '{search_term}':",
     "Found {n} tasks due today:"}

\* C10: the rendered entries are a subsequence of the fetched sequence in its
\* order, each selected record rendered once, and the count of the "Found N"
\* header is the number of entries
C10_OrderAndCount ==
    call.payload.t = "list" =>
        LET e == call.response.entries
            recs == call.payload.v
        IN  /\ \A k \in 1..Len(e) :
                  /\ e[k].index = k
                  /\ e[k].src \in 1..Len(recs)
                  /\ e[k].text = format_task(recs[e[k].src]).text
            /\ \A k, l \in 1..Len(e) : k < l => e[k].src < e[l].src
            /\ call.response.head \in FoundHeads =>
                  /\ call.response.n = Len(e)
                  /\ Len(e) > 0
            /\ call.response.head \notin FoundHeads => e = <<>>
            /\ (call.response.head \in FoundHeads
                /\ call.tool \in {"get_all_tasks", "get_project_tasks"}) =>
                  Len(e) = Len(recs)

\* a search where the first task matches by its title and by two subtasks and
\* the second by two subtasks only: two entries, in order
C10_Witness ==
    /\ SearchCall
    /\ call.arg = PyStr(<<"a">>)
    /\ Len(call.payload.v) = 2
    /\ call.payload.v[1].title = PyStr(<<"A", "b">>)
    /\ call.payload.v[2].title = Absent
    /\ call.payload.v[2].content = EmptyStr
    /\ \A i \in 1..2 : Len(SubtasksOf(call.payload.v[i])) = 3
    /\ call.response.n = 2
    /\ Srcs(call.response) = <<1, 2>>

----------------------------------------------------------------------------
(* The renderer on single records: one request, drawn at the start, served by *)
(* get_all_tasks or get_projects                                              *)

BaseTask == Task(Lit("x"), Absent, Absent, Absent, Absent)

StatusCodes == {Absent, PyInt(0), PyInt(1), PyInt(2)}

ItemShapes ==
    {Absent, PyList(<<>>)}
    \cup {PyList(<<Item(Lit("a"), s1)>>) : s1 \in StatusCodes}
    \cup {PyList(<<Item(Lit("a"), s1), Item(Absent, s2)>>) :
            s1 \in StatusCodes, s2 \in StatusCodes}

StatusShapes ==
    {[BaseTask EXCEPT !.status = st, !.items = it] :
        st \in StatusCodes, it \in ItemShapes}

FieldShapes ==
    {[BaseTask EXCEPT !.title = ti, !.id = id, !.priority = pr] :
        ti \in {Absent, None, EmptyStr, Lit("x")},
        id \in {Absent, Lit("t")},
        pr \in {Absent, None, PyInt(0), PyInt(1), PyInt(3), PyInt(5), PyInt(7)}}

OptionalShapes ==
    {[BaseTask EXCEPT !.content = co, !.dueDate = du, !.startDate = sd, !.tags = tg] :
        co \in {Absent, None, EmptyStr, Lit("c")},
        du \in {Absent, EmptyStr, PyStr(<<"D1">>)},
        sd \in {Absent, EmptyStr, PyStr(<<"D2">>)},
        tg \in {Absent, None, PyList(<<>>), PyList(<<Lit("a"), Lit("b")>>)}}

ProjectShapes ==
    {[t |-> "project", name |-> na, id |-> id, color |-> co, viewMode |-> vm,
      closed |-> cl, kind |-> ki] :
        na \in {Absent, Lit("Inbox")},
        id \in {Absent, Lit("p1")},
        co \in {Absent, None, EmptyStr, Lit("red")},
        vm \in {Absent, EmptyStr, Lit("list")},
        cl \in {Absent, None, PyBool(FALSE), PyBool(TRUE)},
        ki \in {Absent, EmptyStr, Lit("TASK")}}

RenderRequests ==
    {[tool |-> "get_all_tasks", arg |-> None, today |-> "none",
      payload |-> PyList(<<rec>>)] :
        rec \in StatusShapes \cup FieldShapes \cup OptionalShapes}
    \cup
    {[tool |-> "get_projects", arg |-> None, today |-> "none",
      payload |-> PyList(<<rec>>)] : rec \in ProjectShapes}

RenderInit ==
    /\ ticktick = None
    /\ identity = None
    /\ env_ticktick_auth_token = TokEnv1
    /\ env_auth_token = None
    /\ call = NoCall
    /\ pending \in RenderRequests

RenderTask ==
    /\ Serve("get_all_tasks")
    /\ \E cons \in ConsOutcomes : DoGetAllTasks(pending.payload, cons)

RenderProject ==
    /\ Serve("get_projects")
    /\ \E cons \in ConsOutcomes : DoGetProjects(pending.payload, cons)

RenderNext ==
    \/ RenderTask
    \/ RenderProject

SpecRender == RenderInit /\ [][RenderNext]_vars

----------------------------------------------------------------------------
(* Properties of the renderer *)

\* a call that fetched one record and went on to render it
RenderCall ==
    /\ call.tool \in {"get_all_tasks", "get_projects"}
    /\ call.payload.t = "list"
    /\ Len(call.payload.v) = 1

Rec == call.payload.v[1]

\* the rendered lines of the record, none when the response carries no entry
RenderedText ==
    IF Len(call.response.entries) = 1 THEN call.response.entries[1].text ELSE <<>>

HasLine(text, label) == \E i \in 1..Len(text) : text[i].label = label

LineIs(text, label, val) ==
    \E i \in 1..Len(text) : text[i].label = label /\ text[i].val = val

TaskOptional ==
    [content |-> "Content", dueDate |-> "Due Date", startDate |-> "Start Date",
     tags |-> "Tags", items |-> "Subtasks", priority |-> "Priority"]

ProjectOptional ==
    [color |-> "Color", viewMode |-> "View Mode", closed |-> "Closed", kind |-> "Kind"]

\* C11 as stated: the rendered text of every record carries its title (or name)
\* and identifier verbatim, and has no line for an optional field that is
\* missing, empty or falsy
C11_Original ==
    RenderCall =>
        /\ call.response.head \in FoundHeads
        /\ Rec.t = "task" =>
              /\ Rec.title.t = "str" => LineIs(RenderedText, "Title", Rec.title)
              /\ Rec.id.t = "str" => LineIs(RenderedText, "ID", Rec.id)
              /\ \A key \in DOMAIN TaskOptional :
                    ~Truthy(Rec[key]) => ~HasLine(RenderedText, TaskOptional[key])
        /\ Rec.t = "project" =>
              /\ Rec.name.t = "str" => LineIs(RenderedText, "Name", Rec.name)
              /\ Rec.id.t = "str" => LineIs(RenderedText, "ID", Rec.id)
              /\ \A key \in DOMAIN ProjectOptional :
                    ~Truthy(Rec[key]) => ~HasLine(RenderedText, ProjectOptional[key])

\* C12 as stated: rendering never raises, whatever fields are missing or null,
\* and a missing title renders as "No title", a missing identifier as "No ID"
C12_Original ==
    RenderCall =>
        /\ call.response.head \notin ErrorHeads
        /\ Len(call.response.entries) = 1
        /\ (Rec.t = "task" /\ Rec.title = Absent) =>
              LineIs(RenderedText, "Title", Lit("No title"))
        /\ Rec.id = Absent => LineIs(RenderedText, "ID", Lit("No ID"))

\* the subtask lines of a rendered text, in their order
SubtaskLinesOf(text) == SelectSeq(text, LAMBDA l : l.label = "subtask")

\* C13: a task renders as completed exactly when its status is 2, a subtask as
\* checked exactly when its own status is 1, and subtasks are numbered from 1 in
\* input order
C13_StatusAsymmetry ==
    (RenderCall /\ Rec.t = "task" /\ call.response.head \in FoundHeads) =>
        LET subs == SubtasksOf(Rec)
            lines == SubtaskLinesOf(RenderedText)
        IN  /\ LineIs(RenderedText, "Status", Lit("Completed")) <=> Rec.status = PyInt(2)
            /\ LineIs(RenderedText, "Status", Lit("Incomplete")) <=> Rec.status # PyInt(2)
            /\ Len(lines) = Len(subs)
            /\ \A j \in 1..Len(subs) :
                  /\ lines[j].index = j
                  /\ lines[j].val = Get(subs[j], "title", Lit("No title"))
                  /\ lines[j].glyph = "checked" <=> subs[j].status = PyInt(1)
                  /\ lines[j].glyph = "unchecked" <=> subs[j].status # PyInt(1)

\* a task of status 1 rendered incomplete, with a first subtask of status 2
\* unchecked and a second of status 1 checked
C13_Witness ==
    /\ RenderCall
    /\ Rec.t = "task"
    /\ Rec.status = PyInt(1)
    /\ Len(SubtasksOf(Rec)) = 2
    /\ SubtasksOf(Rec)[1].status = PyInt(2)
    /\ SubtasksOf(Rec)[2].status = PyInt(1)
    /\ LineIs(RenderedText, "Status", Lit("Incomplete"))
    /\ SubtaskLinesOf(RenderedText)[1].glyph = "unchecked"
    /\ SubtaskLinesOf(RenderedText)[2].glyph = "checked"
    /\ SubtaskLinesOf(RenderedText)[2].index = 2

----------------------------------------------------------------------------
(* Properties of the probe and of the session across calls *)

\* C15: ping answers "pong" in every state, resolves no credential, constructs
\* no session, makes no upstream call and leaves the process-wide session and
\* the credential sources as they were
C15_PingIsPure ==
    [][(ToolStep /\ call'.tool = "ping") =>
          /\ call'.response = Plain("pong")
          /\ call'.resolved = NotCalled
          /\ call'.trace = <<>>
          /\ call'.payload = NotCalled
          /\ call'.token = None
          /\ ticktick' = ticktick
          /\ identity' = identity
          /\ env_ticktick_auth_token' = env_ticktick_auth_token
          /\ env_auth_token' = env_auth_token]_vars

\* ping answered with no session and no credential to resolve
C15_Witness ==
    /\ call.tool = "ping"
    /\ call.response = Plain("pong")
    /\ ~Truthy(ticktick)
    /\ NoCredential

\* what a data tool returns for one fetch result, its argument and the date,
\* under a session that no call of the process created
FreshSession == TickTickClient(Lit("fresh"))

FreshBody(tool, p, arg, today) ==
    CASE tool = "get_projects" -> get_projects(FreshSession, p)
      [] tool = "get_project_tasks" -> get_project_tasks(FreshSession, p)
      [] tool = "get_all_tasks" -> get_all_tasks(FreshSession, p)
      [] tool = "search_tasks" -> search_tasks(FreshSession, p, arg.v)
      [] tool = "get_tasks_due_today" -> get_tasks_due_today(FreshSession, p, today)
      [] tool = "test_ticktick_connection" -> test_ticktick_connection(FreshSession, p)

Fetches(tr) == Cardinality({i \in 1..Len(tr) : tr[i] = "fetch"})

\* C16: every data tool call that gets past the session guard makes exactly one
\* upstream fetch, and its response is the one this fetch result, the call's
\* argument and the current date determine, whatever the previous call fetched
\* or returned
C16_NoRecordSurvives ==
    [][(ToolStep /\ call'.tool \in DataTools /\ call'.payload # NotCalled) =>
          /\ Fetches(call'.trace) = 1
          /\ call'.response =
                FreshBody(call'.tool, call'.payload, call'.arg, call'.today).response]_vars

\* a call on the stored session that listed one task although an earlier call
\* had left a session behind: nothing but its own fetch is in the response
C16_Witness ==
    /\ call.tool = "get_all_tasks"
    /\ call.resolved = NotCalled
    /\ Fetches(call.trace) = 1
    /\ call.payload = PyList(<<TaskA>>)
    /\ call.response.head = "Found {n} tasks:"
    /\ call.response.n = 1
    /\ call.response = get_all_tasks(FreshSession, call.payload).response

InitFailed(c) == c.response.kind = "text" /\ c.response.head \in FailedInitTexts

\* C18: a data tool call that finds no session resolves the credential anew; if
\* it fails to initialize (nothing resolvable, or the constructor raising) the
\* global stays unset, and otherwise the session for the credential resolved
\* now is stored and the call goes on to fetch
C18_FailureNotRemembered ==
    [][(ToolStep /\ call'.tool \in DataTools /\ ~Truthy(ticktick)) =>
          LET now == get_auth_token(identity, env_ticktick_auth_token,
                                    env_auth_token).val
          IN  /\ ticktick = None
              /\ call'.resolved = now
              /\ InTrace("resolve", call'.trace)
              /\ InitFailed(call') => ticktick' = None
              /\ ~Truthy(now) => InitFailed(call') /\ call'.trace = <<"resolve">>
              /\ Truthy(now) =>
                    \/ /\ InitFailed(call')
                       /\ call'.trace = <<"resolve", "construct">>
                    \/ /\ ticktick' = TickTickClient(now)
                       /\ Fetches(call'.trace) = 1
                       /\ call'.token = now]_vars

\* an initialization that failed in the constructor, with a credential resolved
\* and the global still unset
C18_Witness ==
    /\ InitFailed(call)
    /\ Truthy(call.resolved)
    /\ call.trace = <<"resolve", "construct">>
    /\ ticktick = None

----------------------------------------------------------------------------
(* Tool calls dispatched concurrently on the event loop.  Each call is at one *)
(* of the positions of its handler: dispatched, initializing (inside           *)
(* `if not ticktick:`), ready (past the guard), done (returned).               *)

MaxCalls == 2

Calls == 1..MaxCalls

\* the identity of each request, the constructor's outcome and the upstream
\* result of each call
LoopIdentities == {None, IdentityObj(TokId)}

LoopPayloads == {RaisedFault("timeout"), PyList(<<TaskA>>)}

\* the guard's record of a call that has not evaluated it yet
NoGuard ==
    [exc |-> "none", proceed |-> FALSE, ticktick |-> None, resolved |-> NotCalled,
     trace |-> <<>>]

LoopInit ==
    /\ ticktick = None
    /\ identity = None
    /\ env_ticktick_auth_token \in Env1Values
    /\ env_auth_token = None
    /\ call = NoCall
    /\ \E ids \in [Calls -> LoopIdentities], cons \in [Calls -> ConsOutcomes],
          ps \in [Calls -> LoopPayloads] :
          pending = [tool |-> "dispatched", ids |-> ids, cons |-> cons, payloads |-> ps,
                     pc |-> [c \in Calls |-> "dispatched"],
                     guard |-> [c \in Calls |-> NoGuard],
                     built |-> 0,
                     used |-> [c \in Calls |-> None],
                     responses |-> [c \in Calls |-> <<>>]]

\* a scheduler that may switch to another handler at any statement
EventLoopPreempts(c) == TRUE

\* the handlers are coroutines without an await: the event loop runs a handler
\* from its first statement to its return before it starts or resumes another
EventLoopFree(c) ==
    \A d \in Calls \ {c} : pending.pc[d] \in {"dispatched", "done"}

\* a call that starts over when its initialization failed
InitFailureRetried(c, response) == [pending EXCEPT !.pc[c] = "dispatched"]

\* return "Failed to initialize TickTick client. ..."
InitFailure(c, response) ==
    [pending EXCEPT !.pc[c] = "done", !.responses[c] = Append(@, response)]

\* the handler starts and evaluates `if not ticktick:`
Enter(c) ==
    /\ pending.pc[c] = "dispatched"
    /\ EventLoopFree(c)
    /\ identity' = pending.ids[c]
    /\ pending' = [pending EXCEPT
                      !.pc[c] = IF NeedsInit(ticktick) THEN "initializing" ELSE "ready",
                      !.guard[c] = [NoGuard EXCEPT !.proceed = ~NeedsInit(ticktick),
                                                   !.ticktick = ticktick]]
    /\ UNCHANGED <<ticktick, env_ticktick_auth_token, env_auth_token, call>>

\* `if not initialize_client(): return "Failed to initialize..."`
Construct(c) ==
    /\ pending.pc[c] = "initializing"
    /\ EventLoopFree(c)
    /\ LET init == initialize_client(pending.ids[c], env_ticktick_auth_token,
                                     env_auth_token, pending.cons[c])
           e == [exc |-> init.exc, proceed |-> init.ret,
                 ticktick |-> IF init.assigned THEN init.client ELSE ticktick,
                 resolved |-> init.auth_token, trace |-> init.trace]
       IN  IF init.ret
           THEN /\ ticktick' = e.ticktick
                /\ pending' = [pending EXCEPT !.pc[c] = "ready", !.guard[c] = e,
                                              !.built = @ + 1]
                /\ UNCHANGED <<identity, env_ticktick_auth_token, env_auth_token, call>>
           ELSE /\ Call("get_all_tasks", None, "none", pending.payloads[c], e,
                        get_all_tasks(e.ticktick, pending.payloads[c]))
                /\ pending' = InitFailure(c, call'.response)

\* the try block: ticktick.get_all_tasks() on the global as it is now, then the
\* rendering and the return
Fetch(c) ==
    /\ pending.pc[c] = "ready"
    /\ EventLoopFree(c)
    /\ LET e == [pending.guard[c] EXCEPT !.proceed = TRUE, !.ticktick = ticktick] IN
       Call("get_all_tasks", None, "none", pending.payloads[c], e,
            get_all_tasks(ticktick, pending.payloads[c]))
    /\ pending' = [pending EXCEPT !.pc[c] = "done", !.used[c] = ticktick,
                                  !.responses[c] = Append(@, call'.response)]

LoopNext ==
    \E c \in Calls :
        \/ Enter(c)
        \/ Construct(c)
        \/ Fetch(c)

SpecLoop == LoopInit /\ [][LoopNext]_vars

\* the event loop runs a dispatched or resumable handler, and every upstream
\* call returns or raises
SpecLoopFair == SpecLoop /\ WF_vars(LoopNext)

----------------------------------------------------------------------------
(* Properties of concurrent calls *)

\* C14: under every interleaving of calls dispatched while no session exists,
\* at most one session is ever constructed and stored, and every call that
\* fetched used that one session
C14_OneSession ==
    /\ pending.built <= 1
    /\ pending.built = 0 <=> ticktick = None
    /\ \A c \in Calls :
          /\ pending.pc[c] = "ready" => ticktick.t = "client"
          /\ pending.used[c] # None =>
                /\ ticktick.t = "client"
                /\ pending.used[c] = ticktick
                /\ call.token # None => call.token = ticktick.token

\* two calls of requests with different identities both fetched, through the
\* one session the process constructed
C14_Witness ==
    /\ pending.ids[1] # pending.ids[2]
    /\ Truthy(env_ticktick_auth_token)
    /\ pending.pc[1] = "done"
    /\ pending.pc[2] = "done"
    /\ pending.built = 1
    /\ ticktick.t = "client"
    /\ pending.used[1] = ticktick
    /\ pending.used[2] = ticktick

\* the three ways a data tool call ends
TerminalHeads == {InitFailedText, "Error getting all tasks: ", "Found {n} tasks:"}

\* C17: every dispatched call ends in exactly one of initialization failure,
\* fetch failure or rendered success, with exactly one response, and none
\* loops or waits forever
C17_EveryCallTerminates ==
    /\ [](\A c \in Calls :
            /\ Len(pending.responses[c]) <= 1
            /\ pending.pc[c] = "done" <=> Len(pending.responses[c]) = 1)
    /\ \A c \in Calls :
          <>[](/\ pending.pc[c] = "done"
               /\ Len(pending.responses[c]) = 1
               /\ pending.responses[c][1].kind = "text"
               /\ pending.responses[c][1].head \in TerminalHeads)

\* all calls returned: the first failed to initialize, the second rendered
C17_Witness ==
    /\ \A c \in Calls : pending.pc[c] = "done" /\ Len(pending.responses[c]) = 1
    /\ pending.responses[1][1].head = InitFailedText
    /\ pending.responses[2][1].head = "Found {n} tasks:"

====
